---- MODULE Spec2Model ----
(***************************************************************************)
(* Model of utils/torch_utils.py: the MyAdagrad optimizer (construction,   *)
(* step, change_lr) and the helpers get_optimizer, unsort_idx, save/load   *)
(* and arg_max.                                                            *)
(*                                                                         *)
(* Numbers.  Tensor elements and hyperparameters are floats in the source. *)
(* Here they are fixed-point integers: the integer x stands for x / Scale, *)
(* products and quotients are truncated toward zero, and the float NaN     *)
(* (the square root of a negative number, and whatever is computed from    *)
(* it) is the distinguished value NaN.  Tensor coordinates are 1-based.    *)
(***************************************************************************)
EXTENDS Integers, Sequences, FiniteSets, TLC

VARIABLES
    p_data,        \* p.data of every parameter: a sequence of elements
    state_sum,     \* self.state[p]["sum"]
    state_step,    \* self.state[p]["step"]
    param_groups,  \* self.param_groups: lr, lr_decay, init_accu_value, weight_decay, params
    p_grad,        \* p.grad of every parameter, as the last step call found it
    raised,        \* 0, or the parameter at which the last step call raised RuntimeError
    clr_used,      \* the local clr of the last step call, per parameter (0: not computed)
    old,           \* p_data, state_sum, state_step, param_groups when the last step call began
    grad_calls,    \* per parameter: the step calls so far in which it had a gradient
    reach_calls,   \* per parameter: those of them in which the loop got to it
    calls,         \* the optimizer calls made so far
    pc,            \* a helper call: "idle", "called", "returned" or "raised"
    name,          \* get_optimizer: its argument name, a sequence of characters
    lr,            \* get_optimizer: its argument lr
    optimizer,     \* get_optimizer: the optimizer it constructed
    l,             \* arg_max: its argument
    best,          \* arg_max: the pair (bid, bvl) it returned
    examples,      \* unsort_idx: len(ex.token) of every example
    batch_size,    \* unsort_idx: its argument batch_size
    idxs,          \* unsort_idx: the index lists it returned
    disk,          \* save/load: the file at every path
    model,         \* save: model.state_dict() of the model being trained
    optim,         \* save: optimizer.state_dict() of its optimizer
    model2,        \* load: the state of the model loaded into
    optim2,        \* load: the state of the optimizer loaded into
    last_save,     \* save: the arguments and the outcome of the last call
    last_load,     \* load: the arguments and the outcome of the last call
    io_calls       \* the save/load/train operations made so far

optVars == <<p_data, state_sum, state_step, param_groups, p_grad, raised,
             clr_used, old, grad_calls, reach_calls, calls>>

helperVars == <<pc, name, lr, optimizer, l, best, examples, batch_size, idxs>>

ioVars == <<disk, model, optim, model2, optim2, last_save, last_load, io_calls>>

vars == <<optVars, helperVars, ioVars>>

-----------------------------------------------------------------------------
(* Fixed-point arithmetic with NaN.                                        *)

Scale == 2 * 5

NaN == -(10 ^ 6)

\* n / d for d > 0, truncated toward zero
Trunc(n, d) == IF n >= 0 THEN n \div d ELSE -((-n) \div d)

FAdd(a, b) == IF a = NaN \/ b = NaN THEN NaN ELSE a + b

FNeg(a) == IF a = NaN THEN NaN ELSE -a

FMul(a, b) == IF a = NaN \/ b = NaN THEN NaN ELSE Trunc(a * b, Scale)

\* the input sets keep every divisor away from zero
FDiv(a, b) ==
    IF a = NaN \/ b = NaN THEN NaN
    ELSE IF b > 0 THEN Trunc(a * Scale, b) ELSE -Trunc(a * Scale, -b)

RECURSIVE ISqrtFrom(_, _)
ISqrtFrom(n, r) == IF (r + 1) * (r + 1) > n THEN r ELSE ISqrtFrom(n, r + 1)

\* sqrt of a negative number is NaN
FSqrt(a) == IF a = NaN \/ a < 0 THEN NaN ELSE ISqrtFrom(a * Scale, 0)

\* the 1e-10 of lines 83 and 87: below the resolution 1 / Scale
Eps == 0

-----------------------------------------------------------------------------
(* The optimizer's parameters and the inputs of its operations.            *)

\* param_groups[g]["params"]: parameter 1 alone, then parameters 2 and 3
GroupParams == << <<1>>, <<2, 3>> >>

Params == {1, 2, 3}

\* the order in which step's two loops visit the parameters
ParamOrder == <<1, 2, 3>>

GroupOf(p) == CHOOSE g \in 1..Len(GroupParams) :
                 \E k \in 1..Len(GroupParams[g]) : GroupParams[g][k] = p

\* p.data.size(): parameter 2 has two elements (an embedding), the others one
Size == <<1, 2, 1>>

\* p.data before training
InitData == << <<10>>, <<10, -10>>, <<-10>> >>

\* constructor arguments: lr > 0, lr_decay >= 0, weight_decay >= 0 (per group),
\* init_accu_value any float (the constructor checks none of them)
LrValues == {10}
\* the rates change_lr is called with
NewLrValues == {10, 5}
LrDecayValues == {5}
InitAccuValues == {1, -15}
WeightDecayConfigs == { <<0, 0>>, <<0, 5>>, <<5, 0>> }

NoGrad == [kind |-> "none", idx |-> <<>>, vals |-> <<>>]
Dense(v) == [kind |-> "dense", idx |-> <<>>, vals |-> v]
\* an uncoalesced sparse gradient: _indices() and _values(), entry by entry
Sparse(i, v) == [kind |-> "sparse", idx |-> i, vals |-> v]

\* the gradients backward may leave on each parameter
GradChoices ==
    << {NoGrad, Dense(<<20>>), Sparse(<<1>>, <<-10>>)},
       {NoGrad, Dense(<<20, 0>>), Dense(<<-10, 20>>),
        Sparse(<<1>>, <<20>>), Sparse(<<2, 1>>, <<20, -10>>),
        Sparse(<<1, 1>>, <<20, -10>>)},
       {NoGrad, Dense(<<-10>>)} >>

MaxCalls == 2

-----------------------------------------------------------------------------
(* MyAdagrad.step, one parameter at a time.                                *)

RECURSIVE SumAt(_, _, _)
\* grad.coalesce(): the value at coordinate i is the sum of the entries at i
SumAt(g, i, k) ==
    IF k > Len(g.idx) THEN 0
    ELSE FAdd(IF g.idx[k] = i THEN g.vals[k] ELSE 0, SumAt(g, i, k + 1))

Indices(g) == {g.idx[k] : k \in 1..Len(g.idx)}

\* Clr decaying by the step counter itself, not by the updates before this one
ClrOffByOne(grp, stp) == FDiv(grp.lr, Scale + stp * grp.lr_decay)

\* clr = group["lr"] / (1 + (state["step"] - 1) * group["lr_decay"])
Clr(grp, stp) == FDiv(grp.lr, Scale + (stp - 1) * grp.lr_decay)

\* std = state["sum"].sqrt().add_(1e-10)
Std(s) == FAdd(FSqrt(s), Eps)

\* one element of sum after accumulating the gradient element gv
Accumulate(s, gv) == FAdd(s, FMul(gv, gv))

\* one element of p.data after the update by the gradient element gv
Descend(x, c, gv, s) == FAdd(x, FMul(FNeg(c), FDiv(gv, Std(s))))

\* grad = grad.add(group["weight_decay"], p.data)
Decayed(g, wd, data) ==
    [i \in 1..Len(data) |-> IF wd # 0 THEN FAdd(g.vals[i], FMul(wd, data[i])) ELSE g.vals[i]]

DenseUpdate(g, grp, data, sm, stp) ==
    LET gr == Decayed(g, grp.weight_decay, data)
        c == Clr(grp, stp)
        ns == [i \in 1..Len(data) |-> Accumulate(sm[i], gr[i])]
    IN  [data |-> [i \in 1..Len(data) |-> Descend(data[i], c, gr[i], ns[i])],
         sum |-> ns, step |-> stp, clr |-> c, raised |-> FALSE]

SparseUpdate(g, grp, data, sm, stp) ==
    LET c == Clr(grp, stp)
        ns == [i \in 1..Len(data) |->
                 IF i \in Indices(g) THEN Accumulate(sm[i], SumAt(g, i, 1)) ELSE sm[i]]
    IN  [data |-> [i \in 1..Len(data) |->
                     IF i \in Indices(g) THEN Descend(data[i], c, SumAt(g, i, 1), ns[i])
                     ELSE data[i]],
         sum |-> ns, step |-> stp, clr |-> c, raised |-> FALSE]

\* ParamStep with the sparse/weight_decay check dropped: the decay is ignored
ParamStepIgnoresDecay(g, grp, data, sm, stp) ==
    IF g.kind = "none"
    THEN [data |-> data, sum |-> sm, step |-> stp, clr |-> 0, raised |-> FALSE]
    ELSE IF g.kind = "sparse"
    THEN SparseUpdate(g, grp, data, sm, stp + 1)
    ELSE DenseUpdate(g, grp, data, sm, stp + 1)

\* ParamStep with the check made before the step counter is incremented
ParamStepChecksFirst(g, grp, data, sm, stp) ==
    IF g.kind = "none"
    THEN [data |-> data, sum |-> sm, step |-> stp, clr |-> 0, raised |-> FALSE]
    ELSE IF grp.weight_decay # 0 /\ g.kind = "sparse"
    THEN [data |-> data, sum |-> sm, step |-> stp, clr |-> 0, raised |-> TRUE]
    ELSE IF g.kind = "sparse"
    THEN SparseUpdate(g, grp, data, sm, stp + 1)
    ELSE DenseUpdate(g, grp, data, sm, stp + 1)

\* the body of the inner loop for one parameter
ParamStep(g, grp, data, sm, stp) ==
    IF g.kind = "none"
    THEN [data |-> data, sum |-> sm, step |-> stp, clr |-> 0, raised |-> FALSE]
    ELSE IF grp.weight_decay # 0 /\ g.kind = "sparse"
    THEN [data |-> data, sum |-> sm, step |-> stp + 1, clr |-> 0, raised |-> TRUE]
    ELSE IF g.kind = "sparse"
    THEN SparseUpdate(g, grp, data, sm, stp + 1)
    ELSE DenseUpdate(g, grp, data, sm, stp + 1)

RECURSIVE RunFromBreak(_, _, _)
\* RunFrom with a parameter without gradient ending the loops (break for continue)
RunFromBreak(k, st, grads) ==
    IF k > Len(ParamOrder) THEN st
    ELSE LET p == ParamOrder[k]
             r == ParamStep(grads[p], param_groups[GroupOf(p)],
                            st.data[p], st.sum[p], st.step[p])
             nx == [data |-> [st.data EXCEPT ![p] = r.data],
                    sum |-> [st.sum EXCEPT ![p] = r.sum],
                    step |-> [st.step EXCEPT ![p] = r.step],
                    clr |-> [st.clr EXCEPT ![p] = r.clr],
                    raised |-> IF r.raised THEN p ELSE 0]
         IN  IF r.raised \/ grads[p].kind = "none" THEN nx
             ELSE RunFromBreak(k + 1, nx, grads)

RECURSIVE RunFrom(_, _, _)
\* the two loops from the k-th parameter on; a raise ends them
RunFrom(k, st, grads) ==
    IF k > Len(ParamOrder) THEN st
    ELSE LET p == ParamOrder[k]
             r == ParamStep(grads[p], param_groups[GroupOf(p)],
                            st.data[p], st.sum[p], st.step[p])
             nx == [data |-> [st.data EXCEPT ![p] = r.data],
                    sum |-> [st.sum EXCEPT ![p] = r.sum],
                    step |-> [st.step EXCEPT ![p] = r.step],
                    clr |-> [st.clr EXCEPT ![p] = r.clr],
                    raised |-> IF r.raised THEN p ELSE 0]
         IN  IF r.raised THEN nx ELSE RunFrom(k + 1, nx, grads)

\* the parameters with a sparse gradient in a group with weight decay
Offenders(grads, groups) ==
    {p \in Params : grads[p].kind = "sparse" /\ groups[GroupOf(p)].weight_decay # 0}

\* the position of p in the order of the loops
Pos(p) == CHOOSE k \in 1..Len(ParamOrder) : ParamOrder[k] = p

\* the loops get to p: no parameter before it raises
Reached(p, grads, groups) == \A q \in Offenders(grads, groups) : Pos(q) >= Pos(p)

-----------------------------------------------------------------------------
(* The operations.                                                         *)

\* the variables of a helper that is not in use
NoOptimizer == [kind |-> "none", lr_given |-> FALSE, lr |-> 0, init_accu_value |-> 0]

GetOptimizerIdle == name = <<>> /\ lr = 0 /\ optimizer = NoOptimizer

ArgMaxIdle == l = <<>> /\ best = <<>>

UnsortIdle == examples = <<>> /\ batch_size = 1 /\ idxs = <<>>

HelpersIdle == pc = "idle" /\ GetOptimizerIdle /\ ArgMaxIdle /\ UnsortIdle

\* no optimizer is in use
OptIdle ==
    /\ p_data = <<>>
    /\ state_sum = <<>>
    /\ state_step = <<>>
    /\ param_groups = <<>>
    /\ p_grad = <<>>
    /\ raised = 0
    /\ clr_used = <<>>
    /\ old = <<>>
    /\ grad_calls = <<>>
    /\ reach_calls = <<>>
    /\ calls = 0

NoFile == [status |-> "absent", model |-> "", optimizer |-> "", config |-> ""]

\* no save call yet; latest: no other operation has followed the call
NoSave == [path |-> "", model |-> "", optimizer |-> "", config |-> "",
           wrote |-> FALSE, raised |-> FALSE, latest |-> FALSE]

\* no load call yet; after_save: the call came right after a save call on the same
\* path, and saved is that call
NoLoad == [path |-> "", status |-> "none", config |-> "", with_model |-> FALSE,
           with_optimizer |-> FALSE, after_save |-> FALSE, saved |-> NoSave]

\* no checkpoint is in use
IoIdle ==
    /\ disk = [f \in {} |-> NoFile]
    /\ model = ""
    /\ optim = ""
    /\ model2 = ""
    /\ optim2 = ""
    /\ last_save = NoSave
    /\ last_load = NoLoad
    /\ io_calls = 0

\* MyAdagrad.__init__
OptInit ==
    \E lr0 \in LrValues, d \in LrDecayValues, a \in InitAccuValues, wd \in WeightDecayConfigs :
        /\ param_groups = [g \in 1..Len(GroupParams) |->
               [lr |-> lr0, lr_decay |-> d, init_accu_value |-> a,
                weight_decay |-> wd[g], params |-> GroupParams[g]]]
        /\ p_data = InitData
        /\ state_step = [p \in Params |-> 0]
        /\ state_sum = [p \in Params |-> [i \in 1..Size[p] |-> a]]
        /\ p_grad = [p \in Params |-> NoGrad]
        /\ raised = 0
        /\ clr_used = [p \in Params |-> 0]
        /\ old = [data |-> InitData, sum |-> [p \in Params |-> [i \in 1..Size[p] |-> a]],
                  step |-> [p \in Params |-> 0],
                  groups |-> [g \in 1..Len(GroupParams) |->
                      [lr |-> lr0, lr_decay |-> d, init_accu_value |-> a,
                       weight_decay |-> wd[g], params |-> GroupParams[g]]]]
        /\ grad_calls = [p \in Params |-> 0]
        /\ reach_calls = [p \in Params |-> 0]
        /\ calls = 0

Init ==
    /\ HelpersIdle
    /\ IoIdle
    /\ OptInit

\* MyAdagrad.step(), called without a closure as the training loop does, on the
\* gradients the backward pass left
Step ==
    /\ calls < MaxCalls
    /\ \E g1 \in GradChoices[1], g2 \in GradChoices[2], g3 \in GradChoices[3] :
        LET grads == <<g1, g2, g3>> IN
        \E st \in {RunFrom(1, [data |-> p_data, sum |-> state_sum, step |-> state_step,
                               clr |-> [p \in Params |-> 0], raised |-> 0], grads)} :
            /\ p_grad' = grads
            /\ p_data' = st.data
            /\ state_sum' = st.sum
            /\ state_step' = st.step
            /\ clr_used' = st.clr
            /\ raised' = st.raised
            /\ grad_calls' = [p \in Params |->
                   grad_calls[p] + IF grads[p].kind # "none" THEN 1 ELSE 0]
            /\ reach_calls' = [p \in Params |->
                   reach_calls[p] + IF grads[p].kind # "none" /\ Reached(p, grads, param_groups)
                                    THEN 1 ELSE 0]
    /\ old' = [data |-> p_data, sum |-> state_sum, step |-> state_step,
               groups |-> param_groups]
    /\ calls' = calls + 1
    /\ UNCHANGED <<param_groups, helperVars, ioVars>>

\* change_lr(optimizer, new_lr)
ChangeLr ==
    /\ calls < MaxCalls
    /\ \E new_lr \in NewLrValues :
        /\ \E g \in 1..Len(param_groups) : param_groups[g].lr # new_lr
        /\ param_groups' = [g \in 1..Len(param_groups) |->
                               [param_groups[g] EXCEPT !.lr = new_lr]]
    /\ calls' = calls + 1
    /\ UNCHANGED <<p_data, state_sum, state_step, p_grad, raised, clr_used, old,
                   grad_calls, reach_calls, helperVars, ioVars>>

Next == Step \/ ChangeLr

Spec == Init /\ [][Next]_vars

-----------------------------------------------------------------------------
(* get_optimizer.  A name is a sequence of one-character strings.          *)

Whitespace == {" ", "\t", "\n"}

RECURSIVE LStrip(_)
LStrip(s) == IF s # <<>> /\ Head(s) \in Whitespace THEN LStrip(Tail(s)) ELSE s

RECURSIVE RStrip(_)
RStrip(s) ==
    IF s # <<>> /\ s[Len(s)] \in Whitespace THEN RStrip(SubSeq(s, 1, Len(s) - 1)) ELSE s

\* str.strip()
Strip(s) == RStrip(LStrip(s))

LowerOf(c) ==
    CASE c = "S" -> "s" [] c = "G" -> "g" [] c = "D" -> "d" [] c = "A" -> "a"
      [] c = "R" -> "r" [] c = "M" -> "m" [] c = "Y" -> "y" [] c = "X" -> "x"
      [] OTHER -> c

UpperOf(c) ==
    CASE c = "s" -> "S" [] c = "g" -> "G" [] c = "d" -> "D" [] c = "a" -> "A"
      [] c = "r" -> "R" [] c = "m" -> "M" [] c = "y" -> "Y" [] c = "x" -> "X"
      [] OTHER -> c

\* str.lower()
Lower(s) == [k \in 1..Len(s) |-> LowerOf(s[k])]

NameSgd == <<"s", "g", "d">>
NameAdagrad == <<"a", "d", "a", "g", "r", "a", "d">>
NameMyAdagrad == <<"m", "y", "a", "d", "a", "g", "r", "a", "d">>
NameAdam == <<"a", "d", "a", "m">>
NameAdamax == <<"a", "d", "a", "m", "a", "x">>

\* init_accu_value=0.1 of line 102, in units of 1 / Scale
GetOptimizerAccu == Scale \div 10

\* get_optimizer with the name lower-cased before it is matched
get_optimizer_lowercasing(nm, rate) ==
    LET n == Lower(Strip(nm))
    IN  IF n = NameSgd
        THEN [kind |-> "SGD", lr_given |-> TRUE, lr |-> rate, init_accu_value |-> 0]
        ELSE IF n \in {NameAdagrad, NameMyAdagrad}
        THEN [kind |-> "MyAdagrad", lr_given |-> TRUE, lr |-> rate,
              init_accu_value |-> GetOptimizerAccu]
        ELSE IF n = NameAdam
        THEN [kind |-> "Adam", lr_given |-> TRUE, lr |-> rate, init_accu_value |-> 0]
        ELSE IF n = NameAdamax
        THEN [kind |-> "Adamax", lr_given |-> FALSE, lr |-> 0, init_accu_value |-> 0]
        ELSE [kind |-> "error", lr_given |-> FALSE, lr |-> 0, init_accu_value |-> 0]

\* the optimizer get_optimizer constructs (kind "error": it raises Exception);
\* Adamax is constructed without lr
get_optimizer(nm, rate) ==
    LET n == Strip(nm)
    IN  IF n = NameSgd
        THEN [kind |-> "SGD", lr_given |-> TRUE, lr |-> rate, init_accu_value |-> 0]
        ELSE IF n \in {NameAdagrad, NameMyAdagrad}
        THEN [kind |-> "MyAdagrad", lr_given |-> TRUE, lr |-> rate,
              init_accu_value |-> GetOptimizerAccu]
        ELSE IF n = NameAdam
        THEN [kind |-> "Adam", lr_given |-> TRUE, lr |-> rate, init_accu_value |-> 0]
        ELSE IF n = NameAdamax
        THEN [kind |-> "Adamax", lr_given |-> FALSE, lr |-> 0, init_accu_value |-> 0]
        ELSE [kind |-> "error", lr_given |-> FALSE, lr |-> 0, init_accu_value |-> 0]

RECURSIVE Casings(_)
\* every casing of a name
Casings(s) ==
    IF s = <<>> THEN {<<>>}
    ELSE {<<c>> \o t : c \in {Head(s), UpperOf(Head(s))}, t \in Casings(Tail(s))}

\* the names get_optimizer is called with: every casing of the five names and of
\* two others, alone or between whitespace
BaseNames == {NameSgd, NameAdagrad, NameMyAdagrad, NameAdam, NameAdamax,
              <<"r", "m", "s">>, <<"a", "d", "a", " ", "m">>, <<>>}
LeftPads == {<<>>, <<" ">>}
RightPads == {<<>>, <<"\n">>, <<" ", "\t">>}
Names == {a \o c \o b : a \in LeftPads, b \in RightPads,
                         c \in UNION {Casings(n) : n \in BaseNames}}

InitGetOptimizer ==
    /\ OptIdle
    /\ IoIdle
    /\ ArgMaxIdle
    /\ UnsortIdle
    /\ pc = "called"
    /\ name \in Names
    /\ lr \in NewLrValues
    /\ optimizer = NoOptimizer

GetOptimizer ==
    /\ pc = "called"
    /\ optimizer' = get_optimizer(name, lr)
    /\ pc' = IF optimizer'.kind = "error" THEN "raised" ELSE "returned"
    /\ UNCHANGED <<optVars, ioVars, name, lr, l, best, examples, batch_size, idxs>>

SpecGetOptimizer == InitGetOptimizer /\ [][GetOptimizer]_vars

-----------------------------------------------------------------------------
(* arg_max.  Indices are those of the source: the first element is 0.      *)

RECURSIVE ArgMaxFrom(_, _, _, _)
\* the loop from index k on, with the best index and value so far
ArgMaxFrom(lst, k, bid, bvl) ==
    IF k >= Len(lst) THEN <<bid, bvl>>
    ELSE IF lst[k + 1] > bvl THEN ArgMaxFrom(lst, k + 1, k, lst[k + 1])
    ELSE ArgMaxFrom(lst, k + 1, bid, bvl)

arg_max(lst) == ArgMaxFrom(lst, 0, -1, -1)

MaxLen == 3
ArgValues == -2..2

InitArgMax ==
    /\ OptIdle
    /\ IoIdle
    /\ GetOptimizerIdle
    /\ UnsortIdle
    /\ pc = "called"
    /\ l \in UNION {[1..n -> ArgValues] : n \in 0..MaxLen}
    /\ best = <<>>

ArgMax ==
    /\ pc = "called"
    /\ best' = arg_max(l)
    /\ pc' = "returned"
    /\ UNCHANGED <<optVars, ioVars, name, lr, optimizer, l, examples, batch_size, idxs>>

SpecArgMax == InitArgMax /\ [][ArgMax]_vars

-----------------------------------------------------------------------------
(* unsort_idx.  An example is its len(ex.token); indices start at 0.       *)

\* the first position of done whose index has a key that sorts after key v
InsertAt(done, v, key, reverse) ==
    LET after == {k \in 1..Len(done) :
                    IF reverse THEN key[done[k] + 1] < v ELSE key[done[k] + 1] > v}
    IN  IF after = {} THEN Len(done) + 1
        ELSE CHOOSE k \in after : \A m \in after : k <= m

RECURSIVE SortedFrom(_, _, _, _)
SortedFrom(j, done, key, reverse) ==
    IF j >= Len(key) THEN done
    ELSE LET at == InsertAt(done, key[j + 1], key, reverse)
         IN  SortedFrom(j + 1,
                        SubSeq(done, 1, at - 1) \o <<j>> \o SubSeq(done, at, Len(done)),
                        key, reverse)

\* sorted(range(len(key)), key=key.__getitem__, reverse=reverse): a stable sort,
\* also when reversed
SortedRange(key, reverse) == SortedFrom(0, <<>>, key, reverse)

Reversed(s) == [k \in 1..Len(s) |-> s[Len(s) + 1 - k]]

\* unsort sorting upward and reversing the result, which reverses the ties too
unsort_reversing(lengths) == Reversed(SortedRange(lengths, FALSE))

\* the inner function unsort
unsort(lengths) == SortedRange(lengths, TRUE)

\* np.argsort of a list of distinct numbers
argsort(a) == SortedRange(a, FALSE)

Min(a, b) == IF a < b THEN a ELSE b

\* lengths[i : i + batch_size] for the c-th i of range(0, len(lengths), batch_size)
Chunk(lengths, bs, c) == SubSeq(lengths, (c - 1) * bs + 1, Min(c * bs, Len(lengths)))

NumChunks(lengths, bs) == (Len(lengths) + bs - 1) \div bs

unsort_idx(exs, bs) ==
    [c \in 1..NumChunks(exs, bs) |-> argsort(unsort(Chunk(exs, bs, c)))]

MaxExamples == 4
MaxTokens == 3

InitUnsort ==
    /\ OptIdle
    /\ IoIdle
    /\ GetOptimizerIdle
    /\ ArgMaxIdle
    /\ pc = "called"
    /\ examples \in UNION {[1..n -> 1..MaxTokens] : n \in 0..MaxExamples}
    /\ batch_size \in 1..MaxExamples
    /\ idxs = <<>>

UnsortIdx ==
    /\ pc = "called"
    /\ idxs' = unsort_idx(examples, batch_size)
    /\ pc' = "returned"
    /\ UNCHANGED <<optVars, ioVars, name, lr, optimizer, l, best, examples, batch_size>>

SpecUnsort == InitUnsort /\ [][UnsortIdx]_vars

-----------------------------------------------------------------------------
(* save and load.  A state_dict and a config are opaque values; a file is  *)
(* absent, holds what torch.save wrote, or is what a failed write left.    *)

Paths == {"a.pt", "b.pt"}
ModelStates == {"m1", "m2"}
OptimStates == {"o1", "o2"}
Configs == {"c1", "c2"}

\* what torch.save may raise
SaveErrors == {"IOError", "KeyboardInterrupt"}

\* save with except Exception: a KeyboardInterrupt gets through
SaveCatchesException(exc) == exc \in {"IOError"}

\* except BaseException: every exception is caught
SaveCatches(exc) == exc \in SaveErrors

MaxIoCalls == 3

InitIo ==
    /\ OptIdle
    /\ HelpersIdle
    /\ disk = [f \in Paths |-> NoFile]
    /\ model = "m1"
    /\ optim = "o1"
    /\ model2 = "m0"
    /\ optim2 = "o0"
    /\ last_save = NoSave
    /\ last_load = NoLoad
    /\ io_calls = 0

\* the training loop goes on: the model and its optimizer change
Train ==
    /\ io_calls < MaxIoCalls
    /\ \E m \in ModelStates, o \in OptimStates :
        /\ m # model
        /\ model' = m
        /\ optim' = o
    /\ last_save' = [last_save EXCEPT !.latest = FALSE]
    /\ io_calls' = io_calls + 1
    /\ UNCHANGED <<optVars, helperVars, disk, model2, optim2, last_load>>

\* save(model, optimizer, opt, filename): torch.save writes the file, or raises exc
\* and leaves the file as it was or partly written
Save ==
    /\ io_calls < MaxIoCalls
    /\ \E filename \in Paths, opt \in Configs, exc \in SaveErrors \cup {"none"},
          partly \in BOOLEAN :
        /\ exc = "none" => ~partly
        /\ disk' = [disk EXCEPT ![filename] =
               IF exc = "none"
               THEN [status |-> "ok", model |-> model, optimizer |-> optim, config |-> opt]
               ELSE IF partly
               THEN [status |-> "corrupt", model |-> "", optimizer |-> "", config |-> ""]
               ELSE @]
        /\ last_save' = [path |-> filename, model |-> model, optimizer |-> optim,
                         config |-> opt, wrote |-> exc = "none",
                         raised |-> exc # "none" /\ ~SaveCatches(exc), latest |-> TRUE]
    /\ io_calls' = io_calls + 1
    /\ UNCHANGED <<optVars, helperVars, model, optim, model2, optim2, last_load>>

\* load(model, optimizer, filename) on the second model and optimizer, each of
\* which may be passed as None: torch.load fails on a missing or broken file, and
\* the first use of dump then raises UnboundLocalError
Load ==
    /\ io_calls < MaxIoCalls
    /\ \E filename \in Paths, with_model \in BOOLEAN, with_optimizer \in BOOLEAN :
        LET dump == disk[filename]
            loaded == dump.status = "ok"
            after == last_save.latest /\ last_save.path = filename
        IN  /\ model2' = IF loaded /\ with_model THEN dump.model ELSE model2
            /\ optim2' = IF loaded /\ with_optimizer THEN dump.optimizer ELSE optim2
            /\ last_load' = [path |-> filename,
                             status |-> IF loaded THEN "returned" ELSE "raised",
                             config |-> IF loaded THEN dump.config ELSE "",
                             with_model |-> with_model, with_optimizer |-> with_optimizer,
                             after_save |-> after,
                             saved |-> IF after THEN last_save ELSE NoSave]
    /\ last_save' = [last_save EXCEPT !.latest = FALSE]
    /\ io_calls' = io_calls + 1
    /\ UNCHANGED <<optVars, helperVars, disk, model, optim>>

NextIo == Train \/ Save \/ Load

SpecIo == InitIo /\ [][NextIo]_vars

-----------------------------------------------------------------------------
(* What the last step call did to a parameter, read off the state it began *)
(* in (old) and the gradients it found (p_grad).                           *)

HadGrad(p) == p_grad[p].kind # "none"

OldGroup(p) == old.groups[GroupOf(p)]

\* p holds exactly the completed update of its gradient
Completed(p) ==
    LET r == IF p_grad[p].kind = "sparse"
             THEN SparseUpdate(p_grad[p], OldGroup(p), old.data[p], old.sum[p], old.step[p] + 1)
             ELSE DenseUpdate(p_grad[p], OldGroup(p), old.data[p], old.sum[p], old.step[p] + 1)
    IN  /\ p_data[p] = r.data
        /\ state_sum[p] = r.sum
        /\ state_step[p] = old.step[p] + 1

Untouched(p) ==
    /\ p_data[p] = old.data[p]
    /\ state_sum[p] = old.sum[p]
    /\ state_step[p] = old.step[p]

\* c is lr / (1 + (k - 1) * lr_decay), truncated to the resolution
IsDecayedRate(c, grp, k) ==
    LET den == Scale + (k - 1) * grp.lr_decay
    IN  c * den <= grp.lr * Scale /\ grp.lr * Scale < (c + 1) * den

\* a sparse gradient with no zero value and no duplicate index
CleanSparse(g) ==
    /\ g.kind = "sparse"
    /\ \A k \in 1..Len(g.idx) : g.vals[k] # 0
    /\ \A j, k \in 1..Len(g.idx) : g.idx[j] = g.idx[k] => j = k

\* the dense gradient with the same values at the indices of g and zero elsewhere
AsDense(g, n) == Dense([i \in 1..n |-> SumAt(g, i, 1)])

-----------------------------------------------------------------------------
(* C1: every element of every accumulator sum is non-negative in every     *)
(* state after construction and any step calls, and no step call decreases *)
(* it.                                                                     *)
C1_SumNonNegativeAndGrowing ==
    \A p \in Params : \A i \in 1..Size[p] :
        /\ state_sum[p][i] >= 0
        /\ state_sum[p][i] >= old.sum[p][i]

\* the optimizer was constructed with init_accu_value >= 0
NonNegativeInit == \A g \in 1..Len(param_groups) : param_groups[g].init_accu_value >= 0

(* C1, for an optimizer constructed with init_accu_value >= 0: the same.   *)
C1_HoldsFromNonNegativeInit == NonNegativeInit => C1_SumNonNegativeAndGrowing

(* C2: when the loops of step get to a parameter with a sparse gradient in *)
(* a group with weight_decay # 0, the call raises at that parameter and    *)
(* the parameter's value and sum are not updated.                          *)
C2_SparseWithDecayRaises ==
    \A p \in Params :
        (/\ p_grad[p].kind = "sparse"
         /\ OldGroup(p).weight_decay # 0
         /\ \A q \in Params : Pos(q) < Pos(p) =>
                ~(p_grad[q].kind = "sparse" /\ OldGroup(q).weight_decay # 0))
        => /\ raised = p
           /\ p_data[p] = old.data[p]
           /\ state_sum[p] = old.sum[p]

C2_Witness ==
    /\ raised = 2
    /\ p_grad[2].kind = "sparse"
    /\ OldGroup(2).weight_decay # 0
    /\ p_grad[1].kind = "sparse"
    /\ p_data[1] # old.data[1]
    /\ old.step[2] = 1

(* C3 as stated: in any step call a parameter without gradient is skipped  *)
(* without error, its step, sum and value unchanged, and every other       *)
(* parameter that has a gradient is updated (stated for the optimizers     *)
(* constructed with init_accu_value >= 0).                                 *)
C3_AbsentSkippedOthersUpdated ==
    NonNegativeInit => \A p \in Params : ~HadGrad(p) =>
        /\ Untouched(p)
        /\ raised # p
        /\ \A q \in Params \ {p} : HadGrad(q) => Completed(q)

(* C3 amended: the same, except that a parameter at or after the one at    *)
(* which the call raises the sparse/weight_decay error is not updated.     *)
C3_AbsentSkippedOthersReachedUpdated ==
    \A p \in Params : ~HadGrad(p) =>
        /\ Untouched(p)
        /\ raised # p
        /\ \A q \in Params \ {p} :
              (HadGrad(q) /\ \A o \in Offenders(p_grad, old.groups) : Pos(q) < Pos(o))
                  => Completed(q)

C3_Witness ==
    /\ ~HadGrad(1)
    /\ ~HadGrad(2)
    /\ HadGrad(3)
    /\ raised = 0
    /\ state_step[3] = old.step[3] + 1
    /\ p_data[3] # old.data[3]

(* C4 as stated: the rate of a parameter's update is                       *)
(* lr / (1 + (k - 1) * lr_decay), k the number of step calls so far in     *)
(* which the parameter had a gradient (stated for the optimizers           *)
(* constructed with init_accu_value >= 0).                                 *)
C4_RateByCallsWithGradient ==
    NonNegativeInit => \A p \in Params : clr_used[p] # 0 =>
        IsDecayedRate(clr_used[p], OldGroup(p), grad_calls[p])

(* C4 amended: k is the number of step calls so far whose loops got to the *)
(* parameter with a gradient: a call that raised before getting to it does *)
(* not count, a call that raised at it does.                               *)
C4_RateByCallsReached ==
    \A p \in Params : clr_used[p] # 0 =>
        IsDecayedRate(clr_used[p], OldGroup(p), reach_calls[p])

C4_Witness ==
    /\ clr_used[1] # 0
    /\ reach_calls[1] = 2
    /\ clr_used[1] < OldGroup(1).lr
    /\ clr_used[3] = OldGroup(3).lr
    /\ reach_calls[3] = 1
    /\ grad_calls[3] = 2

(* C5: with weight_decay = 0, a step on a sparse gradient without zero     *)
(* values and duplicate indices leaves the parameter and its sum as the    *)
(* step on the equivalent dense gradient would, and both leave the         *)
(* coordinates outside the index set unchanged.                            *)
C5_SparseAsDense ==
    \A p \in Params :
        (CleanSparse(p_grad[p]) /\ OldGroup(p).weight_decay = 0 /\ clr_used[p] # 0) =>
            LET d == DenseUpdate(AsDense(p_grad[p], Size[p]), OldGroup(p),
                                 old.data[p], old.sum[p], old.step[p] + 1)
            IN  /\ p_data[p] = d.data
                /\ state_sum[p] = d.sum
                /\ \A i \in (1..Size[p]) \ Indices(p_grad[p]) :
                      /\ p_data[p][i] = old.data[p][i]
                      /\ state_sum[p][i] = old.sum[p][i]
                      /\ d.data[i] = old.data[p][i]
                      /\ d.sum[i] = old.sum[p][i]

(* C5, for accumulators that are non-negative when the call begins.        *)
C5_HoldsFromNonNegativeSum ==
    (\A p \in Params : \A i \in 1..Size[p] : old.sum[p][i] >= 0) => C5_SparseAsDense

(* C10: a step call that raises leaves the offending parameter with its    *)
(* step counter incremented and its sum and value unchanged, every         *)
(* parameter before it as its completed update (or untouched, without      *)
(* gradient), and every parameter after it untouched.                      *)
C10_RaiseIsNotAtomic ==
    raised # 0 =>
        /\ state_step[raised] = old.step[raised] + 1
        /\ p_data[raised] = old.data[raised]
        /\ state_sum[raised] = old.sum[raised]
        /\ \A q \in Params :
              /\ (Pos(q) < Pos(raised) /\ HadGrad(q)) => Completed(q)
              /\ (Pos(q) < Pos(raised) /\ ~HadGrad(q)) => Untouched(q)
              /\ Pos(q) > Pos(raised) => Untouched(q)

C10_Witness ==
    /\ raised = 2
    /\ HadGrad(1)
    /\ p_data[1] # old.data[1]
    /\ HadGrad(3)
    /\ old.step[2] = 0
    /\ state_step[2] = 1


-----------------------------------------------------------------------------
(* What get_optimizer, arg_max, unsort_idx and save/load are to do.        *)

\* t is s without the whitespace around it
IsTrimOf(t, s) ==
    \E i \in 1..Len(s) + 1, j \in 0..Len(s) :
        /\ t = SubSeq(s, i, j)
        /\ \A k \in 1..i - 1 : s[k] \in Whitespace
        /\ \A k \in j + 1..Len(s) : s[k] \in Whitespace
        /\ t # <<>> => t[1] \notin Whitespace /\ t[Len(t)] \notin Whitespace

Pieces(s) == {SubSeq(s, i, j) : i \in 1..Len(s) + 1, j \in 0..Len(s)}

KindFor(n) ==
    CASE n = NameSgd -> "SGD"
      [] n = NameAdagrad -> "MyAdagrad"
      [] n = NameMyAdagrad -> "MyAdagrad"
      [] n = NameAdam -> "Adam"
      [] n = NameAdamax -> "Adamax"
      [] OTHER -> "error"

(* C6 as stated: get_optimizer matches the trimmed name whatever its       *)
(* casing: sgd, adagrad, myadagrad, adam and adamax in any casing select   *)
(* SGD, MyAdagrad (init_accu_value 0.1), MyAdagrad, Adam and Adamax, and   *)
(* only other names raise.                                                 *)
C6_MatchesAnyCasing ==
    optimizer.kind # "none" =>
        \A t \in Pieces(name) : IsTrimOf(t, name) =>
            /\ optimizer.kind = KindFor(Lower(t))
            /\ optimizer.kind = "MyAdagrad" => 10 * optimizer.init_accu_value = Scale
            /\ (pc = "raised") = (KindFor(Lower(t)) = "error")

(* C6 amended: get_optimizer matches the trimmed name exactly: only the    *)
(* lower-case spellings select an optimizer, and every other name, another *)
(* casing of the five included, raises.                                    *)
C6_MatchesLowerCaseOnly ==
    optimizer.kind # "none" =>
        \A t \in Pieces(name) : IsTrimOf(t, name) =>
            /\ optimizer.kind = KindFor(t)
            /\ optimizer.kind = "MyAdagrad" => 10 * optimizer.init_accu_value = Scale
            /\ (pc = "raised") = (KindFor(t) = "error")

C6_Witness ==
    /\ pc = "raised"
    /\ name = <<" ", "A", "d", "a", "g", "r", "a", "d", "\n">>

(* C7: arg_max returns (i, l[i]) with l[i] the maximum of l for every      *)
(* non-empty list l, and (-1, -1) for the empty list only.                 *)
C7_ArgMaxIsMaximum ==
    best # <<>> =>
        IF l = <<>> THEN best = <<-1, -1>>
        ELSE /\ best[1] \in 0..Len(l) - 1
             /\ best[2] = l[best[1] + 1]
             /\ \A k \in 1..Len(l) : l[k] <= best[2]

(* C7, for the lists with an element above -1.                             *)
C7_HoldsAboveMinusOne ==
    (\E k \in 1..Len(l) : l[k] > -1) => C7_ArgMaxIsMaximum

\* the place of the i-th example of a chunk in that sorted chunk
Rank(chunk, i) ==
    Cardinality({j \in 0..Len(chunk) - 1 :
                   \/ chunk[j + 1] > chunk[i + 1]
                   \/ chunk[j + 1] = chunk[i + 1] /\ j < i})

(* C8: unsort_idx returns one index list per chunk of batch_size examples  *)
(* (the last may be shorter), and the i-th index of a list is the place of *)
(* the chunk's i-th example in the chunk sorted by descending length with  *)
(* ties in their original order.                                           *)
C8_UnsortIdxInvertsStableSort ==
    pc = "returned" =>
        /\ Len(idxs) * batch_size >= Len(examples)
        /\ (Len(idxs) - 1) * batch_size < Len(examples)
        /\ \A c \in 1..Len(idxs) :
              LET lo == (c - 1) * batch_size
                  n == IF Len(examples) - lo < batch_size THEN Len(examples) - lo
                       ELSE batch_size
                  chunk == [k \in 1..n |-> examples[lo + k]]
              IN  /\ Len(idxs[c]) = n
                  /\ \A i \in 0..n - 1 : idxs[c][i + 1] = Rank(chunk, i)

C8_Witness ==
    /\ pc = "returned"
    /\ examples = <<1, 3, 3, 2>>
    /\ batch_size = 3
    /\ idxs = << <<2, 0, 1>>, <<0>> >>

(* C9 as stated: a load right after a save on the same path returns the    *)
(* config passed to save and leaves the model and the optimizer it was     *)
(* given with the saved state; and save never raises.                      *)
C9_SaveThenLoad ==
    /\ ~last_save.raised
    /\ last_load.after_save =>
          /\ last_load.status = "returned"
          /\ last_load.config = last_load.saved.config
          /\ last_load.with_model => model2 = last_load.saved.model
          /\ last_load.with_optimizer => optim2 = last_load.saved.optimizer

(* C9 amended: the same for a save whose write succeeded; after a save     *)
(* whose write failed, load raises or returns what the file held before.   *)
C9_SaveThenLoadIfWritten ==
    /\ ~last_save.raised
    /\ (last_load.after_save /\ last_load.saved.wrote) =>
          /\ last_load.status = "returned"
          /\ last_load.config = last_load.saved.config
          /\ last_load.with_model => model2 = last_load.saved.model
          /\ last_load.with_optimizer => optim2 = last_load.saved.optimizer

C9_Witness ==
    /\ last_load.after_save
    /\ last_load.saved.wrote
    /\ last_load.saved.model = "m2"
    /\ last_load.with_model
    /\ last_load.with_optimizer
    /\ last_load.status = "returned"
    /\ model2 = "m2"

====
